---- MODULE Spec2Model ----
(***************************************************************************)
(* Active nap session manager of naninha: the NapProvider React context   *)
(* (contexts/NapContext), its storage and notification effects, the tick  *)
(* interval, and the callers that stop a nap (notification handler).      *)
(*                                                                         *)
(* React state is modelled as React runs it: a callback reads the         *)
(* activeNaps of the last render (its closure), setActiveNaps queues an   *)
(* updater, and Render applies the queue and then runs the effects.       *)
(***************************************************************************)
EXTENDS Integers, Sequences, FiniteSets, TLC

\* ---------------------------------------------------------------- bounds
\* Spec: the API calls of a run and the asynchronous calls in flight per kind
\* (storage writes, notification calls)
MaxCalls == 3
MaxInFlight == 2
\* SpecClock: the same, and the clock movements
ClockCalls == 3
ClockAdvances == 1
ClockInFlight == 1
\* SpecRestart: the same, and the process deaths
RestartCalls == 2
RestartAdvances == 1
MaxRestarts == 1
RestartInFlight == 1
\* SpecTick: the same, and the interval callbacks
TickCalls == 1
TickAdvances == 1
TickRestarts == 1
MaxTicks == 1
TickInFlight == 1

\* SpecThrottle: startNap calls, the interval callbacks, the clock and the
\* process deaths
ThrottleCalls == 1
ThrottleAdvances == 1
ThrottleRestarts == 1
ThrottleTicks == 2
ThrottleInFlight == 2
\* SpecInterval: sessions started and stopped, the interval callbacks and the
\* clock
IntervalCalls == 3
IntervalAdvances == 1
IntervalTicks == 1
IntervalInFlight == 1
\* SpecNotes: notes edited while the interval ticks
NotesCalls == 3
NotesTicks == 1
NotesInFlight == 1
\* SpecRead: the read accessors called between starts, stops and renders
ReadCalls == 2
ReadAdvances == 1
ReadInFlight == 1
\* SpecHistory: the screen's toggle and the notification response listener
HistoryCalls == 3
HistoryAdvances == 1
HistoryInFlight == 1
\* SpecEarly: the early provider's calls and the seconds that pass
EarlyCalls == 3
EarlySeconds == 2
\* SpecFault: a provider lifetime over any stored text, with platform calls
\* that fail
FaultCalls == 2
MaxFaults == 1
FaultInFlight == 1

\* ------------------------------------------------------------- constants
NOTIFICATION_UPDATE_INTERVAL == 30

\* Date.now() at the first mount, in ms (any value far above the throttle
\* window, as a wall clock is)
StartClock == 100 * 1000 + 250

\* the amounts by which the clock moves between two events: past the
\* throttle window and not a whole number of seconds
Deltas == {30800}

\* the Baby arguments the callers pass
Babies ==
  { [id |-> "a", name |-> "Ana", gender |-> "feminino"],
    [id |-> "b", name |-> "Beto", gender |-> "masculino"] }

BabyIds == {b.id : b \in Babies}

NoteTexts == {"x"}

\* user?.id of the auth context: nobody signed in, or a profile
Users == {"", "u1"}

\* ------------------------------------------------ Date <-> ISO string
\* new Date(ms).toISOString(): the string carries seconds and milliseconds
toISOString(ms) == <<ms \div 1000, ms % 1000>>

\* new Date(iso).getTime()
getTime(iso) == iso[1] * 1000 + iso[2]

\* ------------------------------------------- Record<string, ActiveNap>
\* an object is the sequence of its values in key insertion order; the key
\* of an entry is its babyId
Keys(m) == [i \in 1..Len(m) |-> m[i].babyId]

Has(m, id) == \E i \in 1..Len(m) : m[i].babyId = id

Get(m, id) == m[CHOOSE i \in 1..Len(m) : m[i].babyId = id]

\* {...prev, [nap.babyId]: nap}: an existing key keeps its position
Put(m, nap) ==
  IF Has(m, nap.babyId)
    THEN [i \in 1..Len(m) |-> IF m[i].babyId = nap.babyId THEN nap ELSE m[i]]
    ELSE Append(m, nap)

\* const n = {...prev}; delete n[id]
Delete(m, id) == SelectSeq(m, LAMBDA s : s.babyId # id)

\* ------------------------------------------------ JSON.stringify / parse
\* a serialisation that keeps the start time to the second only
StringifySeconds(m) ==
  [i \in 1..Len(m) |->
     <<m[i].babyId, m[i].babyName, m[i].babyGender, <<m[i].startTime[1], 0>>,
       m[i].notes>>]

\* the stored text: one tuple of field values per key, in key order
Stringify(m) ==
  [i \in 1..Len(m) |->
     <<m[i].babyId, m[i].babyName, m[i].babyGender, m[i].startTime, m[i].notes>>]

Parse(s) ==
  [i \in 1..Len(s) |->
     [babyId |-> s[i][1], babyName |-> s[i][2], babyGender |-> s[i][3],
      startTime |-> s[i][4], notes |-> s[i][5]]]

\* ------------------------------------------------------------ formatTime
formatTime(seconds) ==
  LET hrs == seconds \div 3600
      mins == (seconds % 3600) \div 60
      secs == seconds % 60
  IN IF hrs > 0 THEN <<hrs, "h", mins, "min">> ELSE <<mins, "min", secs, "s">>

\* ------------------------------------------------------------ variables
VARIABLES
  now,            \* Date.now()
  store,          \* AsyncStorage under STORAGE_KEY
  writes,         \* setItem / removeItem calls in flight
  activeNaps,     \* useState activeNaps of the last render
  isLoading,      \* useState isLoading of the last render
  queue,          \* setActiveNaps updates not yet rendered
  loadPending,    \* setIsLoading(false) queued
  tick,           \* useState tick of the last render
  tickPending,    \* setTick updates not yet rendered
  tickInterval,   \* tickIntervalRef and the closure of its callback
  lastNotificationUpdate, \* lastNotificationUpdateRef.current
  notif,          \* the notification with id 'active-nap' as displayed
  notifOps,       \* show / dismiss calls in flight
  lastCall,       \* the last step of the provider when it was an API call or a
                  \* render: the call, what it returned, the accepted set before
  budget,         \* the API calls, clock movements, process deaths and ticks left,
                  \* and the asynchronous calls that may be in flight
  startClocks,    \* history: the clock values read when a session was created
  died,           \* history: the active set when the process last died, kept
                  \* until the next API call
  mounted,        \* the provider is mounted: FALSE after an unmount or after a
                  \* render that threw
  lastTickPush,   \* history: the clock of the last show issued by a tick (0
                  \* when there was none) and the process deaths then left
  early           \* the early, counter-based NapProvider: its activeNaps of the
                  \* last render, its queued updates, intervalsRef, the
                  \* setInterval timers not cleared, and whether it is mounted

vars ==
  <<now, store, writes, activeNaps, isLoading, queue, loadPending, tick,
    tickPending, tickInterval, lastNotificationUpdate, notif, notifOps,
    lastCall, budget, startClocks, died, mounted, lastTickPush, early>>

\* the state of the startTime-based provider apart from the budget
providerVars ==
  <<now, store, writes, activeNaps, isLoading, queue, loadPending, tick,
    tickPending, tickInterval, lastNotificationUpdate, notif, notifOps,
    lastCall, startClocks, died, mounted, lastTickPush>>

\* ---------------------------------------------------------------- values
\* a stored text is the JSON of a session map ("map"), the JSON text null
\* ("null") or no JSON at all ("text")
NoStore == [present |-> FALSE, form |-> "map", data |-> <<>>]

NoNotif == [shown |-> FALSE, title |-> "", body |-> <<>>]

\* tickIntervalRef (running: it is not null), the closure of its callback, and
\* the number of setInterval timers not yet cleared
NoInterval == [running |-> FALSE, naps |-> <<>>, alive |-> 0]

NoResult ==
  [ok |-> FALSE, babyId |-> "", startTime |-> 0, endTime |-> 0,
   elapsedSeconds |-> 0, notes |-> ""]

NoCall == [op |-> "none", id |-> "", result |-> NoResult, before |-> <<>>]

NoDeath == [any |-> FALSE, synced |-> FALSE, naps |-> <<>>]

Lazy == -1

\* the early provider as mounted: useState({}) and useRef({}), no timer
NoEarly ==
  [activeNaps |-> <<>>, queue |-> <<>>, intervalsRef |-> [id \in BabyIds |-> 0],
   timers |-> {}, nextId |-> 1, mounted |-> TRUE]

\* ---------------------------------------------------------------- updaters
\* startNap without its "already napping" test
startNapUpdaterNoGuard(prev, u, clk) ==
  Put(prev, [babyId |-> u.id, babyName |-> u.name, babyGender |-> u.gender,
             startTime |-> toISOString(clk), notes |-> ""])

\* startNap writing the start time to the second
startNapUpdaterSeconds(prev, u, clk) ==
  IF Has(prev, u.id) THEN prev
  ELSE Put(prev, [babyId |-> u.id, babyName |-> u.name, babyGender |-> u.gender,
                  startTime |-> <<clk \div 1000, 0>>, notes |-> ""])

\* the updater startNap passes to setActiveNaps; clk is new Date()
startNapUpdater(prev, u, clk) ==
  IF Has(prev, u.id) THEN prev
  ELSE Put(prev, [babyId |-> u.id, babyName |-> u.name, babyGender |-> u.gender,
                  startTime |-> toISOString(clk), notes |-> ""])

\* a stop that empties the whole map
stopNapUpdaterAll(prev, u) == <<>>

stopNapUpdater(prev, u) == Delete(prev, u.id)

\* updateNotes without its "no session" test: {...prev[babyId], notes} of an
\* absent key is an object with notes only
updateNotesUpdaterNoGuard(prev, u) ==
  IF ~Has(prev, u.id)
    THEN Put(prev, [babyId |-> u.id, babyName |-> "", babyGender |-> "",
                    startTime |-> toISOString(0), notes |-> u.notes])
    ELSE Put(prev, [Get(prev, u.id) EXCEPT !.notes = u.notes])

updateNotesUpdater(prev, u) ==
  IF ~Has(prev, u.id) THEN prev
  ELSE Put(prev, [Get(prev, u.id) EXCEPT !.notes = u.notes])

\* one queued update applied to prev; an update evaluated when it was
\* queued carries the clock of that moment in t
ApplyUpdate(prev, u, clk) ==
  CASE u.op = "start" -> startNapUpdater(prev, u, IF u.t = Lazy THEN clk ELSE u.t)
    [] u.op = "stop" -> stopNapUpdater(prev, u)
    [] u.op = "notes" -> updateNotesUpdater(prev, u)
    [] u.op = "set" -> u.value
    [] u.op = "setNull" -> <<>>

\* does the update return a new object (Object.is(prev, next) false)
NewObject(prev, u) ==
  CASE u.op = "start" -> ~Has(prev, u.id)
    [] u.op = "stop" -> TRUE
    [] u.op = "notes" -> Has(prev, u.id)
    [] u.op = "set" -> TRUE
    [] u.op = "setNull" -> TRUE

\* does the render throw a TypeError: setActiveNaps(null) leaves null, which
\* startNap's and updateNotes' updaters index (prev[babyId]), stopNap's
\* updater spreads into {}, and the render body hands to Object.keys
RECURSIVE RenderThrows(_, _)
RenderThrows(q, isNull) ==
  IF q = <<>> THEN isNull
  ELSE LET u == Head(q)
       IN CASE u.op = "setNull" -> RenderThrows(Tail(q), TRUE)
            [] u.op \in {"set", "stop"} -> RenderThrows(Tail(q), FALSE)
            [] OTHER -> isNull \/ RenderThrows(Tail(q), FALSE)

RECURSIVE ApplyQueue(_, _, _)
ApplyQueue(q, prev, clk) ==
  IF q = <<>> THEN [naps |-> prev, changed |-> FALSE, stamped |-> FALSE]
  ELSE LET u == Head(q)
           r == ApplyQueue(Tail(q), ApplyUpdate(prev, u, clk), clk)
       IN [naps |-> r.naps,
           changed |-> r.changed \/ NewObject(prev, u),
           stamped |-> r.stamped \/ (u.op = "start" /\ u.t = Lazy /\ ~Has(prev, u.id))]

\* at: the clock when startNap was called (history, no updater reads it)
Update(op, id, name, gender, notes, t, value) ==
  [op |-> op, id |-> id, name |-> name, gender |-> gender, notes |-> notes,
   t |-> t, value |-> value, at |-> IF op = "start" THEN now ELSE 0]

\* the provider has no update waiting for a render: React then evaluates an
\* updater at once, and drops it when it returns the state it was given
NoPending == queue = <<>> /\ ~loadPending /\ tickPending = 0

\* the active set once every queued update has been applied
Accepted == ApplyQueue(queue, activeNaps, now).naps

\* ------------------------------------------------------------- accessors
\* elapsed time counted in ticks instead of derived from startTime
getElapsedSecondsCounter(babyId) ==
  IF ~Has(activeNaps, babyId) THEN 0 ELSE tick

getElapsedSeconds(babyId) ==
  IF ~Has(activeNaps, babyId) THEN 0
  ELSE (now - getTime(Get(activeNaps, babyId).startTime)) \div 1000

\* isNapping answering for the whole set instead of the subject
isNappingAny(babyId) == Len(Keys(activeNaps)) > 0

isNapping(babyId) == Has(activeNaps, babyId)

hasAnyActiveNap == Len(Keys(activeNaps)) > 0

\* ------------------------------------------------------------------ Init
\* the first mount over the stored text st
InitStored(b, st) ==
  /\ now = StartClock
  /\ budget = b
  /\ store = st
  /\ writes = {}
  /\ activeNaps = <<>>
  /\ isLoading = TRUE
  /\ queue = <<>>
  /\ loadPending = FALSE
  /\ tick = 0
  /\ tickPending = 0
  /\ tickInterval = NoInterval
  /\ lastNotificationUpdate = 0
  /\ notif = NoNotif
  /\ notifOps = {}
  /\ lastCall = NoCall
  /\ startClocks = {}
  /\ died = NoDeath
  /\ mounted = TRUE
  /\ lastTickPush = [at |-> 0, life |-> 0]
  /\ early = NoEarly

\* the first mount after installation
InitWith(b) == InitStored(b, NoStore)

Init ==
  InitWith([calls |-> MaxCalls, advances |-> 0, restarts |-> 0, ticks |-> 0,
            inflight |-> MaxInFlight, faults |-> 0])

InitClock ==
  InitWith([calls |-> ClockCalls, advances |-> ClockAdvances, restarts |-> 0,
            ticks |-> 0, inflight |-> ClockInFlight, faults |-> 0])

InitRestart ==
  InitWith([calls |-> RestartCalls, advances |-> RestartAdvances,
            restarts |-> MaxRestarts, ticks |-> 0, inflight |-> RestartInFlight,
            faults |-> 0])

InitTick ==
  InitWith([calls |-> TickCalls, advances |-> TickAdvances,
            restarts |-> TickRestarts, ticks |-> MaxTicks,
            inflight |-> TickInFlight, faults |-> 0])

\* what AsyncStorage may hold when the provider mounts: nothing, the map a
\* previous process wrote, a text that is not JSON, the JSON text null
StoredTexts ==
  { NoStore,
    [present |-> TRUE, form |-> "map",
     data |-> Stringify(<<[babyId |-> "a", babyName |-> "Ana",
                           babyGender |-> "feminino",
                           startTime |-> toISOString(StartClock - 30800),
                           notes |-> "x"]>>)],
    [present |-> TRUE, form |-> "text", data |-> <<>>],
    [present |-> TRUE, form |-> "null", data |-> <<>>] }

InitThrottle ==
  InitWith([calls |-> ThrottleCalls, advances |-> ThrottleAdvances,
            restarts |-> ThrottleRestarts, ticks |-> ThrottleTicks,
            inflight |-> ThrottleInFlight, faults |-> 0])

InitInterval ==
  InitWith([calls |-> IntervalCalls, advances |-> IntervalAdvances, restarts |-> 0,
            ticks |-> IntervalTicks, inflight |-> IntervalInFlight, faults |-> 0])

InitNotes ==
  InitWith([calls |-> NotesCalls, advances |-> 0, restarts |-> 0,
            ticks |-> NotesTicks, inflight |-> NotesInFlight, faults |-> 0])

InitRead ==
  InitWith([calls |-> ReadCalls, advances |-> ReadAdvances, restarts |-> 0,
            ticks |-> 0, inflight |-> ReadInFlight, faults |-> 0])

InitHistory ==
  InitWith([calls |-> HistoryCalls, advances |-> HistoryAdvances, restarts |-> 0,
            ticks |-> 0, inflight |-> HistoryInFlight, faults |-> 0])

InitEarly ==
  InitWith([calls |-> EarlyCalls, advances |-> 0, restarts |-> 0,
            ticks |-> EarlySeconds, inflight |-> 0, faults |-> 0])

InitFault ==
  \E st \in StoredTexts :
    InitStored([calls |-> FaultCalls, advances |-> 0, restarts |-> 0, ticks |-> 0,
                inflight |-> FaultInFlight, faults |-> MaxFaults], st)

\* --------------------------------------------------------------- effects
\* persistNaps: what the effect hands to AsyncStorage for the rendered map
persistNapsAlwaysSet(naps) ==
  [kind |-> "setItem", data |-> Stringify(naps)]

persistNaps(naps) ==
  IF Len(Keys(naps)) > 0
    THEN [kind |-> "setItem", data |-> Stringify(naps)]
    ELSE [kind |-> "removeItem", data |-> <<>>]

\* showNapNotification(babyName, babyGender, elapsedSeconds) as a call in
\* flight; by is the caller, which decides what happens on completion
showNapNotification(nap, elapsed, by) ==
  [kind |-> "show", title |-> nap.babyName, body |-> formatTime(elapsed), by |-> by]

dismissNapNotification ==
  [kind |-> "dismiss", title |-> "", body |-> <<>>, by |-> "effect"]

\* updateNotification: the call the effect issues for the rendered map
updateNotification(naps, clk) ==
  IF Len(Keys(naps)) > 0
    THEN LET firstNap == naps[1]
         IN showNapNotification(firstNap, (clk - getTime(firstNap.startTime)) \div 1000,
                                "effect")
    ELSE dismissNapNotification

\* the effects of a commit issuing the notification call before the write
effectsNotifyFirst(naps, clk) == <<updateNotification(naps, clk), persistNaps(naps)>>

\* the platform calls the effects of one commit issue, in the order of the
\* effects in the component: persistNaps, then updateNotification; each
\* reaches its call before its first await
effects(naps, clk) == <<persistNaps(naps), updateNotification(naps, clk)>>

\* effects that do not wait for the initial read
issuedCallsUnguarded(loading, naps, clk) == effects(naps, clk)

\* what the two effects issue when they run: nothing while isLoading
\* (if (isLoading) return; if (!isLoading) updateNotification())
issuedCalls(loading, naps, clk) == IF loading THEN <<>> ELSE effects(naps, clk)

\* the AsyncStorage calls and the notification calls among issued calls
storageCalls(e) ==
  {e[k] : k \in {k \in DOMAIN e : e[k].kind \in {"setItem", "removeItem"}}}

notificationCalls(e) ==
  {e[k] : k \in {k \in DOMAIN e : e[k].kind \in {"show", "dismiss"}}}

\* the cleanup of the tick effect: it clears the interval the ref holds
tickCleanup(prev) ==
  IF prev.running THEN [running |-> FALSE, naps |-> <<>>, alive |-> prev.alive - 1]
  ELSE prev

\* a tick effect that starts an interval without clearing or testing the ref
tickEffectNoCleanup(prev, naps) ==
  IF Len(Keys(naps)) > 0
    THEN [running |-> TRUE, naps |-> naps, alive |-> prev.alive + 1]
    ELSE tickCleanup(prev)

\* the tick effect, which runs when the number of keys changed: first the
\* cleanup of its previous run, then its body, which starts an interval whose
\* callback closes over the rendered map
tickEffect(prev, naps) ==
  LET ref == tickCleanup(prev)
  IN IF Len(Keys(naps)) > 0
       THEN IF ~ref.running
              THEN [running |-> TRUE, naps |-> naps, alive |-> ref.alive + 1]
              ELSE ref
       ELSE tickCleanup(ref)

\* React removes the provider: the effect cleanups run and the queued
\* updates are dropped
Unmounted ==
  /\ mounted' = FALSE
  /\ tickInterval' = tickCleanup(tickInterval)
  /\ queue' = <<>>
  /\ loadPending' = FALSE
  /\ tickPending' = 0
  /\ UNCHANGED <<now, store, writes, activeNaps, isLoading, tick,
                 lastNotificationUpdate, notif, notifOps, budget, startClocks, died,
                 lastTickPush>>

\* ---------------------------------------------------------------- Render
\* React renders the provider: the queued updates are applied in order, then
\* the effects whose dependencies changed run
Render ==
  /\ mounted
  /\ ~NoPending
  /\ IF RenderThrows(queue, FALSE)
       THEN /\ Unmounted
            /\ lastCall' = [op |-> "throw", id |-> "", result |-> NoResult,
                            before |-> activeNaps]
       ELSE /\ LET r == ApplyQueue(queue, activeNaps, now)
                   nowLoading == isLoading /\ ~loadPending
                   deps == r.changed \/ (nowLoading # isLoading)
               IN /\ activeNaps' = r.naps
                  /\ isLoading' = nowLoading
                  /\ tick' = tick + tickPending
                  /\ startClocks' = IF r.stamped THEN startClocks \cup {now}
                                     ELSE startClocks
                  /\ writes' = IF deps
                                 THEN writes \cup storageCalls(issuedCalls(nowLoading, r.naps, now))
                                 ELSE writes
                  /\ notifOps' = IF deps
                                   THEN notifOps
                                          \cup notificationCalls(issuedCalls(nowLoading, r.naps, now))
                                   ELSE notifOps
                  /\ tickInterval' = IF Len(Keys(r.naps)) # Len(Keys(activeNaps))
                                       THEN tickEffect(tickInterval, r.naps)
                                       ELSE tickInterval
                  /\ lastCall' = [op |-> "render", id |-> "", result |-> NoResult,
                                  before |-> activeNaps,
                                  issued |-> IF deps
                                               THEN issuedCalls(nowLoading, r.naps, now)
                                               ELSE <<>>]
            /\ Cardinality(writes') <= budget.inflight
            /\ Cardinality(notifOps') <= budget.inflight
            /\ queue' = <<>>
            /\ loadPending' = FALSE
            /\ tickPending' = 0
            /\ UNCHANGED <<now, store, lastNotificationUpdate, notif, budget, died,
                           mounted, lastTickPush>>
  /\ UNCHANGED early

\* ------------------------------------------------------ loadPersistedNaps
\* AsyncStorage.getItem resolves: a missing key queues nothing, a text that
\* is not JSON makes JSON.parse throw into the catch, anything else is handed
\* to setActiveNaps as parsed
LoadDone ==
  /\ mounted
  /\ isLoading /\ ~loadPending
  /\ queue' = CASE ~store.present \/ store.form = "text" -> queue
               [] store.form = "null" ->
                    Append(queue, Update("setNull", "", "", "", "", Lazy, <<>>))
               [] OTHER ->
                    Append(queue, Update("set", "", "", "", "", Lazy, Parse(store.data)))
  /\ loadPending' = TRUE
  /\ lastCall' = NoCall
  /\ UNCHANGED <<now, store, writes, activeNaps, isLoading, tick, tickPending,
                 tickInterval, lastNotificationUpdate, notif, notifOps, startClocks,
                 died, budget, mounted, lastTickPush>>
  /\ UNCHANGED early

\* AsyncStorage.getItem rejects: the catch logs, the finally ends the load
LoadFails ==
  /\ mounted
  /\ isLoading /\ ~loadPending
  /\ budget.faults > 0
  /\ budget' = [budget EXCEPT !.faults = @ - 1]
  /\ loadPending' = TRUE
  /\ lastCall' = NoCall
  /\ UNCHANGED <<now, store, writes, activeNaps, isLoading, queue, tick, tickPending,
                 tickInterval, lastNotificationUpdate, notif, notifOps, startClocks,
                 died, mounted, lastTickPush>>
  /\ UNCHANGED early

\* what a call of the context API leaves for the claims: the call, its return
\* value and the accepted set it found
Called(op, id, result) ==
  lastCall' = [op |-> op, id |-> id, result |-> result, before |-> Accepted]

\* --------------------------------------------------------------- startNap
StartNap(baby) ==
  /\ mounted
  /\ budget.calls > 0
  /\ budget' = [budget EXCEPT !.calls = @ - 1]
  /\ died' = NoDeath
  /\ LET u == Update("start", baby.id, baby.name, baby.gender, "",
                     IF NoPending THEN now ELSE Lazy, <<>>)
     IN IF NoPending /\ ~NewObject(activeNaps, u)
          THEN UNCHANGED <<queue, startClocks>>
          ELSE /\ queue' = Append(queue, u)
               /\ startClocks' = IF NoPending THEN startClocks \cup {now}
                                  ELSE startClocks
  /\ Called("startNap", baby.id, NoResult)
  /\ UNCHANGED <<now, store, writes, activeNaps, isLoading, loadPending, tick,
                 tickPending, tickInterval, lastNotificationUpdate, notif, notifOps,
                 mounted, lastTickPush>>
  /\ UNCHANGED early

\* ---------------------------------------------------------------- stopNap
\* what stopNap(babyId) returns: it reads the activeNaps of its closure
stopNapResult(babyId) ==
  IF ~Has(activeNaps, babyId) THEN NoResult
  ELSE LET nap == Get(activeNaps, babyId)
           startTime == getTime(nap.startTime)
           endTime == now
       IN [ok |-> TRUE, babyId |-> babyId, startTime |-> startTime,
           endTime |-> endTime,
           elapsedSeconds |-> (endTime - startTime) \div 1000,
           notes |-> nap.notes]

\* stopNap queueing its removal without looking for the nap
stopNapQueueNoGuard(babyId) ==
  Append(queue, Update("stop", babyId, "", "", "", Lazy, <<>>))

\* the update stopNap(babyId) queues
stopNapQueue(babyId) ==
  IF ~Has(activeNaps, babyId) THEN queue
  ELSE Append(queue, Update("stop", babyId, "", "", "", Lazy, <<>>))

StopNap(babyId) ==
  /\ mounted
  /\ budget.calls > 0
  /\ budget' = [budget EXCEPT !.calls = @ - 1]
  /\ died' = NoDeath
  /\ queue' = stopNapQueue(babyId)
  /\ Called("stopNap", babyId, stopNapResult(babyId))
  /\ UNCHANGED <<now, store, writes, activeNaps, isLoading, loadPending, tick,
                 tickPending, tickInterval, lastNotificationUpdate, notif, notifOps,
                 startClocks,
                 mounted, lastTickPush>>
  /\ UNCHANGED early

\* ----------------------------------------------------- stopFirstActiveNap
\* the most recently inserted key instead of the first
lastActiveNapId(napIds) == napIds[Len(napIds)]

\* the key stopFirstActiveNap hands to stopNap
firstActiveNapId(napIds) == napIds[1]

\* called by the notification response listener of NotificationHandler
StopFirstActiveNap ==
  /\ mounted
  /\ budget.calls > 0
  /\ budget' = [budget EXCEPT !.calls = @ - 1]
  /\ died' = NoDeath
  /\ LET napIds == Keys(activeNaps)
     IN IF Len(napIds) = 0
          THEN /\ UNCHANGED queue
               /\ Called("stopFirstActiveNap", "", NoResult)
          ELSE LET babyId == firstActiveNapId(napIds)
               IN /\ queue' = stopNapQueue(babyId)
                  /\ Called("stopFirstActiveNap", babyId, stopNapResult(babyId))
  /\ UNCHANGED <<now, store, writes, activeNaps, isLoading, loadPending, tick,
                 tickPending, tickInterval, lastNotificationUpdate, notif, notifOps,
                 startClocks,
                 mounted, lastTickPush>>
  /\ UNCHANGED early

\* ------------------------------------------------------------ updateNotes
UpdateNotes(babyId, notes) ==
  /\ mounted
  /\ budget.calls > 0
  /\ budget' = [budget EXCEPT !.calls = @ - 1]
  /\ died' = NoDeath
  /\ LET u == Update("notes", babyId, "", "", notes, Lazy, <<>>)
     IN queue' = IF NoPending /\ ~NewObject(activeNaps, u) THEN queue
                 ELSE Append(queue, u)
  /\ Called("updateNotes", babyId, NoResult)
  /\ UNCHANGED <<now, store, writes, activeNaps, isLoading, loadPending, tick,
                 tickPending, tickInterval, lastNotificationUpdate, notif, notifOps,
                 startClocks,
                 mounted, lastTickPush>>
  /\ UNCHANGED early

\* ------------------------------------------------------ history inserts
\* supabase.from('naps').insert(...) as the two callers build it
napInsert(babyId, user, napData) ==
  [baby_id |-> babyId, started_by |-> user,
   start_time |-> toISOString(napData.startTime),
   end_time |-> toISOString(napData.endTime),
   duration_seconds |-> napData.elapsedSeconds, notes |-> napData.notes]

\* saveNapToDatabase of the notification handler: the inserts it issues
saveNapToDatabase(user, napData) ==
  IF user = "" \/ napData.elapsedSeconds <= 0 THEN <<>>
  ELSE <<napInsert(napData.babyId, user, napData)>>

\* the listener of NotificationHandler on a stop action or a tap
NotificationResponse(user) ==
  /\ mounted
  /\ budget.calls > 0
  /\ budget' = [budget EXCEPT !.calls = @ - 1]
  /\ died' = NoDeath
  /\ LET napIds == Keys(activeNaps)
         babyId == IF Len(napIds) = 0 THEN "" ELSE firstActiveNapId(napIds)
         napData == IF Len(napIds) = 0 THEN NoResult ELSE stopNapResult(babyId)
     IN /\ queue' = IF Len(napIds) = 0 THEN queue ELSE stopNapQueue(babyId)
        /\ lastCall' = [op |-> "notificationResponse", id |-> babyId,
                        result |-> napData, before |-> Accepted, user |-> user,
                        inserts |-> IF napData.ok THEN saveNapToDatabase(user, napData)
                                    ELSE <<>>]
  /\ UNCHANGED <<now, store, writes, activeNaps, isLoading, loadPending, tick,
                 tickPending, tickInterval, lastNotificationUpdate, notif, notifOps,
                 startClocks, mounted, lastTickPush>>
  /\ UNCHANGED early

\* toggleNap of the home screen for the baby shown, the user as signed in
ToggleNap(baby, user) ==
  /\ mounted
  /\ budget.calls > 0
  /\ budget' = [budget EXCEPT !.calls = @ - 1]
  /\ died' = NoDeath
  /\ IF isNapping(baby.id)
       THEN LET napData == stopNapResult(baby.id)
            IN /\ queue' = stopNapQueue(baby.id)
               /\ lastCall' = [op |-> "toggleNap", id |-> baby.id, result |-> napData,
                               before |-> Accepted, user |-> user,
                               inserts |-> IF napData.ok /\ napData.elapsedSeconds > 0
                                             THEN <<napInsert(baby.id, user, napData)>>
                                             ELSE <<>>]
               /\ UNCHANGED startClocks
       ELSE LET u == Update("start", baby.id, baby.name, baby.gender, "",
                            IF NoPending THEN now ELSE Lazy, <<>>)
            IN /\ IF NoPending /\ ~NewObject(activeNaps, u)
                    THEN UNCHANGED <<queue, startClocks>>
                    ELSE /\ queue' = Append(queue, u)
                         /\ startClocks' = IF NoPending THEN startClocks \cup {now}
                                            ELSE startClocks
               /\ lastCall' = [op |-> "toggleNap", id |-> baby.id, result |-> NoResult,
                               before |-> Accepted, user |-> user, inserts |-> <<>>]
  /\ UNCHANGED <<now, store, writes, activeNaps, isLoading, loadPending, tick,
                 tickPending, tickInterval, lastNotificationUpdate, notif, notifOps,
                 mounted, lastTickPush>>
  /\ UNCHANGED early

\* ------------------------------------------- the early NapProvider
\* one queued setActiveNaps updater of the early provider applied to prev
earlyApplyUpdate(prev, u) ==
  CASE u.op = "start" ->
         Put(prev, [babyId |-> u.id, babyName |-> u.name, babyGender |-> u.gender,
                    startTime |-> u.at, elapsedSeconds |-> 0, notes |-> ""])
    [] u.op = "stop" -> Delete(prev, u.id)
    [] u.op = "inc" ->
         IF ~Has(prev, u.id) THEN prev
         ELSE Put(prev, [Get(prev, u.id) EXCEPT !.elapsedSeconds = @ + 1])

RECURSIVE earlyApplyQueue(_, _)
earlyApplyQueue(q, prev) ==
  IF q = <<>> THEN prev ELSE earlyApplyQueue(Tail(q), earlyApplyUpdate(prev, Head(q)))

\* the early active set once every queued update has been applied
earlyAccepted == earlyApplyQueue(early.queue, early.activeNaps)

earlyUpdate(op, id, name, gender) ==
  [op |-> op, id |-> id, name |-> name, gender |-> gender, at |-> now]

\* the updaters the setInterval callbacks of the timers in ts queue, one
\* each, in the order the timers were created
RECURSIVE earlyIncrements(_)
earlyIncrements(ts) ==
  IF ts = {} THEN <<>>
  ELSE LET t == CHOOSE x \in ts : \A y \in ts : x.id <= y.id
       IN <<earlyUpdate("inc", t.babyId, "", "")>> \o earlyIncrements(ts \ {t})

\* React renders the early provider
EarlyRender ==
  /\ early.mounted
  /\ early.queue # <<>>
  /\ early' = [early EXCEPT !.activeNaps = earlyAccepted, !.queue = <<>>]
  /\ UNCHANGED <<budget, providerVars>>

\* startNap(baby): the test reads the activeNaps of the last render
EarlyStartNap(baby) ==
  /\ early.mounted
  /\ budget.calls > 0
  /\ budget' = [budget EXCEPT !.calls = @ - 1]
  /\ IF Has(early.activeNaps, baby.id)
       THEN UNCHANGED early
       ELSE early' = [early EXCEPT
                        !.timers = @ \cup {[id |-> early.nextId, babyId |-> baby.id]},
                        !.intervalsRef[baby.id] = early.nextId,
                        !.nextId = @ + 1,
                        !.queue = Append(@, earlyUpdate("start", baby.id, baby.name,
                                                        baby.gender))]
  /\ UNCHANGED providerVars

\* stopNap(babyId): it clears the interval the ref holds for the subject
EarlyStopNap(babyId) ==
  /\ early.mounted
  /\ budget.calls > 0
  /\ budget' = [budget EXCEPT !.calls = @ - 1]
  /\ IF ~Has(early.activeNaps, babyId)
       THEN UNCHANGED early
       ELSE early' = [early EXCEPT
                        !.timers = {t \in @ : t.id # early.intervalsRef[babyId]},
                        !.intervalsRef[babyId] = 0,
                        !.queue = Append(@, earlyUpdate("stop", babyId, "", ""))]
  /\ UNCHANGED providerVars

\* one second passes: the callback of every timer not cleared runs once; an
\* unmounted provider ignores the updates
EarlySecond ==
  /\ budget.ticks > 0
  /\ early.timers # {}
  /\ budget' = [budget EXCEPT !.ticks = @ - 1]
  /\ early' = [early EXCEPT
                 !.queue = IF early.mounted THEN @ \o earlyIncrements(early.timers)
                           ELSE @]
  /\ UNCHANGED providerVars

\* the cleanup of the mount effect: it clears the intervals the ref holds
EarlyUnmount ==
  /\ early.mounted
  /\ early' = [early EXCEPT
                 !.mounted = FALSE,
                 !.queue = <<>>,
                 !.timers = {t \in @ : \A id \in BabyIds : early.intervalsRef[id] # t.id}]
  /\ UNCHANGED <<budget, providerVars>>

\* ------------------------------------------------------- accessor calls
\* a consumer calls an accessor of the rendered context value; lastCall
\* keeps what it returned
GetElapsedSeconds(babyId) ==
  /\ mounted
  /\ lastCall' = [op |-> "getElapsedSeconds", id |-> babyId,
                  result |-> [NoResult EXCEPT !.elapsedSeconds = getElapsedSeconds(babyId)],
                  before |-> activeNaps]
  /\ UNCHANGED <<now, store, writes, activeNaps, isLoading, queue, loadPending, tick,
                 tickPending, tickInterval, lastNotificationUpdate, notif, notifOps,
                 budget, startClocks, died, mounted, lastTickPush>>
  /\ UNCHANGED early

IsNapping(babyId) ==
  /\ mounted
  /\ lastCall' = [op |-> "isNapping", id |-> babyId,
                  result |-> [NoResult EXCEPT !.ok = isNapping(babyId)],
                  before |-> activeNaps]
  /\ UNCHANGED <<now, store, writes, activeNaps, isLoading, queue, loadPending, tick,
                 tickPending, tickInterval, lastNotificationUpdate, notif, notifOps,
                 budget, startClocks, died, mounted, lastTickPush>>
  /\ UNCHANGED early

HasAnyActiveNap ==
  /\ mounted
  /\ lastCall' = [op |-> "hasAnyActiveNap", id |-> "",
                  result |-> [NoResult EXCEPT !.ok = hasAnyActiveNap],
                  before |-> activeNaps]
  /\ UNCHANGED <<now, store, writes, activeNaps, isLoading, queue, loadPending, tick,
                 tickPending, tickInterval, lastNotificationUpdate, notif, notifOps,
                 budget, startClocks, died, mounted, lastTickPush>>
  /\ UNCHANGED early

\* ------------------------------------------------------------------- tick
\* a callback that refreshes the notification on every tick
throttlePassedAlways == TRUE

\* the test of the callback: is the last recorded push 30 s old
throttlePassed == now - lastNotificationUpdate >= NOTIFICATION_UPDATE_INTERVAL * 1000

\* an interval callback that also saves the map it holds
TickPersists ==
  /\ mounted
  /\ tickInterval.running
  /\ budget.ticks > 0
  /\ budget' = [budget EXCEPT !.ticks = @ - 1]
  /\ tickPending' = tickPending + 1
  /\ IF throttlePassed
       THEN LET firstNap == tickInterval.naps[1]
                elapsed == (now - getTime(firstNap.startTime)) \div 1000
            IN /\ notifOps' = notifOps \cup {showNapNotification(firstNap, elapsed, "tick")}
               /\ lastNotificationUpdate' = now
               /\ lastTickPush' = [at |-> now, life |-> budget.restarts]
       ELSE UNCHANGED <<notifOps, lastNotificationUpdate, lastTickPush>>
  /\ Cardinality(notifOps') <= budget.inflight
  /\ lastCall' = NoCall
  /\ writes' = writes \cup {persistNaps(tickInterval.naps)}
  /\ UNCHANGED <<now, store, activeNaps, isLoading, queue, loadPending, tick,
                 tickInterval, notif, startClocks, died,
                 mounted>>
  /\ UNCHANGED early

\* the setInterval callback; activeNaps and napIds are those of the render
\* that started the interval
Tick ==
  /\ mounted
  /\ tickInterval.running
  /\ budget.ticks > 0
  /\ budget' = [budget EXCEPT !.ticks = @ - 1]
  /\ tickPending' = tickPending + 1
  /\ IF throttlePassed
       THEN LET firstNap == tickInterval.naps[1]
                elapsed == (now - getTime(firstNap.startTime)) \div 1000
            IN /\ notifOps' = notifOps \cup {showNapNotification(firstNap, elapsed, "tick")}
               /\ lastNotificationUpdate' = now
               /\ lastTickPush' = [at |-> now, life |-> budget.restarts]
       ELSE UNCHANGED <<notifOps, lastNotificationUpdate, lastTickPush>>
  /\ Cardinality(notifOps') <= budget.inflight
  /\ lastCall' = NoCall
  /\ UNCHANGED <<now, store, writes, activeNaps, isLoading, queue, loadPending, tick,
                 tickInterval, notif, startClocks, died,
                 mounted>>
  /\ UNCHANGED early

\* ------------------------------------------------ asynchronous completions
\* AsyncStorage.setItem / removeItem takes effect
WriteDone(w) ==
  /\ w \in writes
  /\ writes' = writes \ {w}
  /\ store' = IF w.kind = "setItem"
                THEN [present |-> TRUE, form |-> "map", data |-> w.data] ELSE NoStore
  /\ lastCall' = NoCall
  /\ UNCHANGED <<now, activeNaps, isLoading, queue, loadPending, tick, tickPending,
                 tickInterval, lastNotificationUpdate, notif, notifOps, startClocks,
                 died, budget,
                 mounted, lastTickPush>>
  /\ UNCHANGED early

\* scheduleNotificationAsync / dismissNotificationAsync takes effect; the
\* effect that awaited a show then records the time
NotifDone(n) ==
  /\ n \in notifOps
  /\ notifOps' = notifOps \ {n}
  /\ notif' = IF n.kind = "show"
                THEN [shown |-> TRUE, title |-> n.title, body |-> n.body]
                ELSE NoNotif
  /\ lastNotificationUpdate' =
       IF n.kind = "show" /\ n.by = "effect" THEN now ELSE lastNotificationUpdate
  /\ lastCall' = NoCall
  /\ UNCHANGED <<now, store, writes, activeNaps, isLoading, queue, loadPending, tick,
                 tickPending, tickInterval, startClocks, died, budget,
                 mounted, lastTickPush>>
  /\ UNCHANGED early

\* a rejected write answered by putting the stored map back in memory
WriteFailsRollsBack(w) ==
  /\ w \in writes
  /\ budget.faults > 0
  /\ budget' = [budget EXCEPT !.faults = @ - 1]
  /\ writes' = writes \ {w}
  /\ activeNaps' = IF store.present /\ store.form = "map" THEN Parse(store.data)
                   ELSE <<>>
  /\ lastCall' = NoCall
  /\ UNCHANGED <<now, store, isLoading, queue, loadPending, tick,
                 tickPending, tickInterval, lastNotificationUpdate, notif, notifOps,
                 startClocks, died, mounted, lastTickPush>>
  /\ UNCHANGED early

\* AsyncStorage.setItem / removeItem rejects: persistNaps catches and logs
WriteFails(w) ==
  /\ w \in writes
  /\ budget.faults > 0
  /\ budget' = [budget EXCEPT !.faults = @ - 1]
  /\ writes' = writes \ {w}
  /\ lastCall' = NoCall
  /\ UNCHANGED <<now, store, activeNaps, isLoading, queue, loadPending, tick,
                 tickPending, tickInterval, lastNotificationUpdate, notif, notifOps,
                 startClocks, died, mounted, lastTickPush>>
  /\ UNCHANGED early

\* a rejected notification call taking the provider down with it
NotifFailsFatal(n) ==
  /\ n \in notifOps
  /\ budget.faults > 0
  /\ budget' = [budget EXCEPT !.faults = @ - 1]
  /\ notifOps' = notifOps \ {n}
  /\ lastCall' = NoCall
  /\ mounted' = FALSE
  /\ tickInterval' = tickCleanup(tickInterval)
  /\ queue' = <<>>
  /\ loadPending' = FALSE
  /\ tickPending' = 0
  /\ UNCHANGED <<now, store, writes, activeNaps, isLoading, tick,
                 lastNotificationUpdate, notif, startClocks, died, lastTickPush>>
  /\ UNCHANGED early

\* scheduleNotificationAsync / dismissNotificationAsync rejects: the promise
\* of the effect (or of the tick, which does not await) rejects unhandled,
\* and the effect does not reach its lastNotificationUpdateRef assignment
NotifFails(n) ==
  /\ n \in notifOps
  /\ budget.faults > 0
  /\ budget' = [budget EXCEPT !.faults = @ - 1]
  /\ notifOps' = notifOps \ {n}
  /\ lastCall' = NoCall
  /\ UNCHANGED <<now, store, writes, activeNaps, isLoading, queue, loadPending, tick,
                 tickPending, tickInterval, lastNotificationUpdate, notif,
                 startClocks, died, mounted, lastTickPush>>
  /\ UNCHANGED early

\* the provider is torn down
Unmount ==
  /\ mounted
  /\ Unmounted
  /\ lastCall' = NoCall
  /\ UNCHANGED early

\* ------------------------------------------------------------ environment
AdvanceClock(d) ==
  /\ budget.advances > 0
  /\ budget' = [budget EXCEPT !.advances = @ - 1]
  /\ now' = now + d
  /\ lastCall' = NoCall
  /\ UNCHANGED <<store, writes, activeNaps, isLoading, queue, loadPending, tick,
                 tickPending, tickInterval, lastNotificationUpdate, notif, notifOps,
                 startClocks, died,
                 mounted, lastTickPush>>
  /\ UNCHANGED early

\* is the stored value the one persistNaps writes for the rendered map, with
\* nothing still on its way
Synced ==
  /\ ~isLoading /\ NoPending /\ writes = {}
  /\ store = IF Len(activeNaps) > 0
               THEN [present |-> TRUE, form |-> "map", data |-> Stringify(activeNaps)]
               ELSE NoStore

\* the process dies and the app is launched again: memory is lost, storage
\* and the displayed notification stay
Restart ==
  /\ budget.restarts > 0
  /\ budget' = [budget EXCEPT !.restarts = @ - 1]
  /\ died' = [any |-> TRUE, synced |-> Synced, naps |-> activeNaps]
  /\ writes' = {}
  /\ activeNaps' = <<>>
  /\ isLoading' = TRUE
  /\ queue' = <<>>
  /\ loadPending' = FALSE
  /\ tick' = 0
  /\ tickPending' = 0
  /\ tickInterval' = NoInterval
  /\ lastNotificationUpdate' = 0
  /\ notifOps' = {}
  /\ mounted' = TRUE
  /\ lastCall' = NoCall
  /\ UNCHANGED <<now, store, notif, startClocks,
                 lastTickPush>>
  /\ UNCHANGED early

\* ------------------------------------------------------------------- Next
\* the provider and its consumers at one instant
Next ==
  \/ Render
  \/ LoadDone
  \/ \E baby \in Babies : StartNap(baby)
  \/ \E babyId \in BabyIds : StopNap(babyId)
  \/ StopFirstActiveNap
  \/ \E babyId \in BabyIds, notes \in NoteTexts : UpdateNotes(babyId, notes)
  \/ \E w \in writes : WriteDone(w)
  \/ \E n \in notifOps : NotifDone(n)

\* sessions started at different times and stopped from the screen and from
\* the notification
NextClock ==
  \/ Render
  \/ LoadDone
  \/ \E baby \in Babies : StartNap(baby)
  \/ \E babyId \in BabyIds : StopNap(babyId)
  \/ StopFirstActiveNap
  \/ \E w \in writes : WriteDone(w)
  \/ \E n \in notifOps : NotifDone(n)
  \/ \E d \in Deltas : AdvanceClock(d)

\* the whole API, the clock and the death of the process
NextRestart ==
  \/ Render
  \/ LoadDone
  \/ \E baby \in Babies : StartNap(baby)
  \/ \E babyId \in BabyIds : StopNap(babyId)
  \/ StopFirstActiveNap
  \/ \E babyId \in BabyIds, notes \in NoteTexts : UpdateNotes(babyId, notes)
  \/ \E w \in writes : WriteDone(w)
  \/ \E n \in notifOps : NotifDone(n)
  \/ \E d \in Deltas : AdvanceClock(d)
  \/ Restart

\* sessions started and stopped from the screen, the interval callback, the
\* clock and the death of the process
NextTick ==
  \/ Render
  \/ LoadDone
  \/ \E baby \in Babies : StartNap(baby)
  \/ \E babyId \in BabyIds : StopNap(babyId)
  \/ Tick
  \/ \E w \in writes : WriteDone(w)
  \/ \E n \in notifOps : NotifDone(n)
  \/ \E d \in Deltas : AdvanceClock(d)
  \/ Restart

\* one session started and left running: the interval callback, the clock
\* and the death of the process
NextThrottle ==
  \/ Render
  \/ LoadDone
  \/ \E baby \in {b \in Babies : b.id = "a"} : StartNap(baby)
  \/ Tick
  \/ \E w \in writes : WriteDone(w)
  \/ \E n \in notifOps : NotifDone(n)
  \/ \E d \in Deltas : AdvanceClock(d)
  \/ Restart

\* sessions started and stopped from the screen while the interval runs
NextInterval ==
  \/ Render
  \/ LoadDone
  \/ \E baby \in Babies : StartNap(baby)
  \/ \E babyId \in BabyIds : StopNap(babyId)
  \/ Tick
  \/ \E w \in writes : WriteDone(w)
  \/ \E n \in notifOps : NotifDone(n)
  \/ \E d \in Deltas : AdvanceClock(d)

\* notes edited while sessions run and the interval ticks
NextNotes ==
  \/ Render
  \/ LoadDone
  \/ \E baby \in Babies : StartNap(baby)
  \/ \E babyId \in BabyIds, notes \in NoteTexts : UpdateNotes(babyId, notes)
  \/ Tick
  \/ \E w \in writes : WriteDone(w)
  \/ \E n \in notifOps : NotifDone(n)

\* the accessors read between starts, stops, renders and clock advances
NextRead ==
  \/ Render
  \/ LoadDone
  \/ \E baby \in Babies : StartNap(baby)
  \/ \E babyId \in BabyIds : StopNap(babyId)
  \/ \E babyId \in BabyIds : GetElapsedSeconds(babyId)
  \/ \E babyId \in BabyIds : IsNapping(babyId)
  \/ HasAnyActiveNap
  \/ \E w \in writes : WriteDone(w)
  \/ \E n \in notifOps : NotifDone(n)
  \/ \E d \in Deltas : AdvanceClock(d)

\* the two callers that save a finalized nap to the history
NextHistory ==
  \/ Render
  \/ LoadDone
  \/ \E baby \in Babies, user \in Users : ToggleNap(baby, user)
  \/ \E user \in Users : NotificationResponse(user)
  \/ \E w \in writes : WriteDone(w)
  \/ \E n \in notifOps : NotifDone(n)
  \/ \E d \in Deltas : AdvanceClock(d)

\* the early provider
NextEarly ==
  \/ EarlyRender
  \/ \E baby \in Babies : EarlyStartNap(baby)
  \/ \E babyId \in BabyIds : EarlyStopNap(babyId)
  \/ EarlySecond
  \/ EarlyUnmount

\* a provider lifetime: the whole API, the platform calls that fail, the
\* teardown
NextFault ==
  \/ Render
  \/ LoadDone
  \/ LoadFails
  \/ \E baby \in Babies : StartNap(baby)
  \/ \E babyId \in BabyIds : StopNap(babyId)
  \/ StopFirstActiveNap
  \/ \E babyId \in BabyIds, notes \in NoteTexts : UpdateNotes(babyId, notes)
  \/ \E w \in writes : WriteDone(w)
  \/ \E w \in writes : WriteFails(w)
  \/ \E n \in notifOps : NotifDone(n)
  \/ \E n \in notifOps : NotifFails(n)
  \/ Unmount

Spec == Init /\ [][Next]_vars

SpecClock == InitClock /\ [][NextClock]_vars

SpecRestart == InitRestart /\ [][NextRestart]_vars

SpecTick == InitTick /\ [][NextTick]_vars

SpecThrottle == InitThrottle /\ [][NextThrottle]_vars

SpecInterval == InitInterval /\ [][NextInterval]_vars

SpecNotes == InitNotes /\ [][NextNotes]_vars

SpecRead == InitRead /\ [][NextRead]_vars

SpecHistory == InitHistory /\ [][NextHistory]_vars

SpecEarly == InitEarly /\ [][NextEarly]_vars

SpecFault == InitFault /\ [][NextFault]_vars

\* ================================================================ claims
\* this step is a call of the context API
IsCall(op) == budget'.calls = budget.calls - 1 /\ lastCall'.op = op

\* a stopNap updater for babyId is queued and not yet rendered
StopQueued(babyId) == \E i \in 1..Len(queue) : queue[i].op = "stop" /\ queue[i].id = babyId

\* C1: a session is finalized at most once: a stopNap or stopFirstActiveNap
\* call returns a FinalizedNap only for a session no earlier call has
\* already been given, also when the provider has not re-rendered in between
C1_FinalizedAtMostOnce ==
  [][((IsCall("stopNap") \/ IsCall("stopFirstActiveNap")) /\ lastCall'.result.ok)
       => ~StopQueued(lastCall'.id)]_vars

C3_WriteIssuedInSameTurn ==
  [][((IsCall("startNap") \/ IsCall("stopNap") \/ IsCall("updateNotes"))
        /\ Accepted' # Accepted)
       => persistNaps(Accepted') \in writes']_vars

\* C4: when the process died with its active set fully persisted and no call
\* came since, the restore yields exactly that active set: every session,
\* with its notes and its startTime
C4_RestoreRoundTrip ==
  (~isLoading /\ died.any /\ died.synced) => activeNaps = died.naps

\* the restore has read back a session with notes, started more than 30 s ago
C4_Witness ==
  /\ ~isLoading /\ died.any /\ died.synced
  /\ Has(died.naps, "a") /\ Has(activeNaps, "a")
  /\ Get(activeNaps, "a").notes = "x"
  /\ now - getTime(Get(activeNaps, "a").startTime) >= 30000

\* C5: while the initial read is in progress no call changes the active set
C5_NoCallAcceptedWhileLoading == isLoading => activeNaps = <<>>

\* C6: for every active session, started at clock value S, getElapsedSeconds
\* is floor((now - S) / 1000), whatever the number of ticks so far
C6_DriftFree ==
  \A babyId \in BabyIds :
    Has(activeNaps, babyId) =>
      \E S \in startClocks :
        /\ toISOString(S) = Get(activeNaps, babyId).startTime
        /\ getElapsedSeconds(babyId) = (now - S) \div 1000

\* a restored session, 30 s old, with the single tick since the restore
\* rendered
C6_Witness ==
  /\ died.any /\ ~isLoading /\ Has(activeNaps, "a")
  /\ tick = 1
  /\ getElapsedSeconds("a") >= 30

\* C7: stopFirstActiveNap finalizes the session of the first key, which no
\* active session was started before; every other session stays as it was;
\* and the render that removes a session shows the notification for the
\* first of the sessions that remain
C7_StopsPrimary ==
  /\ (lastCall.op = "stopFirstActiveNap" /\ activeNaps # <<>>) =>
        /\ lastCall.result.ok
        /\ lastCall.id = Keys(activeNaps)[1]
        /\ \A j \in 1..Len(activeNaps) :
              lastCall.result.startTime <= getTime(activeNaps[j].startTime)
        /\ Accepted = Delete(lastCall.before, lastCall.id)
  /\ (lastCall.op = "render" /\ ~isLoading /\ activeNaps # <<>>
        /\ \E i \in 1..Len(lastCall.before) :
              ~Has(activeNaps, lastCall.before[i].babyId)) =>
        \E n \in notifOps :
           /\ n.kind = "show" /\ n.by = "effect"
           /\ n.title = activeNaps[1].babyName

\* stopFirstActiveNap has just returned the earlier of two sessions
C7_Witness ==
  /\ lastCall.op = "stopFirstActiveNap" /\ lastCall.result.ok
  /\ Len(activeNaps) = 2
  /\ lastCall.id = activeNaps[1].babyId
  /\ getTime(activeNaps[1].startTime) < getTime(activeNaps[2].startTime)
  /\ Accepted = <<activeNaps[2]>>

\* C8: stopNap for a subject without a session, and stopFirstActiveNap with
\* no session at all, return null, queue nothing and touch neither the
\* active set nor the storage
C8_StopAbsentIsNoOp ==
  [][((IsCall("stopNap") /\ ~Has(activeNaps, lastCall'.id))
        \/ (IsCall("stopFirstActiveNap") /\ activeNaps = <<>>))
       => /\ ~lastCall'.result.ok
          /\ queue' = queue /\ loadPending' = loadPending
          /\ activeNaps' = activeNaps
          /\ store' = store /\ writes' = writes]_vars

\* stopNap has returned null for a subject without a session while another
\* subject has one
C8_Witness ==
  /\ lastCall.op = "stopNap" /\ ~lastCall.result.ok
  /\ activeNaps # <<>> /\ ~Has(activeNaps, lastCall.id)
  /\ ~isLoading

\* C9: stopNap on an active session returns its startTime, the clock as
\* endTime, the floor of the difference in seconds, and the notes of the
\* last accepted updateNotes, and removes exactly that session
C9_StopReturnsSession ==
  [][(IsCall("stopNap") /\ lastCall'.result.ok /\ Has(Accepted, lastCall'.id)) =>
        LET r == lastCall'.result
            nap == Get(Accepted, lastCall'.id)
        IN /\ r.startTime = getTime(nap.startTime)
           /\ r.endTime = now
           /\ r.elapsedSeconds = (r.endTime - r.startTime) \div 1000
           /\ r.notes = nap.notes
           /\ Accepted' = Delete(Accepted, lastCall'.id)]_vars

\* C10: once the active set is empty and nothing is outstanding any more
\* (no queued update, no show or dismiss in flight), the notification is
\* not displayed
C10_DismissedWhenEmpty ==
  (~isLoading /\ NoPending /\ notifOps = {} /\ activeNaps = <<>>) => ~notif.shown

\* C11: when the initial read rejects, finds no key, or finds a text that is
\* not a serialized session map, and no session was started meanwhile, the
\* render that ends the load leaves the provider mounted (nothing was
\* thrown), not loading, with an empty active set
C11_LoadFailureYieldsEmpty ==
  [][(mounted /\ isLoading /\ loadPending /\ lastCall'.op \in {"render", "throw"}
        /\ startClocks' = {}
        /\ ~\E i \in 1..Len(queue) : queue[i].op = "set")
       => (mounted' /\ ~isLoading' /\ activeNaps' = <<>>)]_vars

\* C12: after every render and its effects the tick interval runs exactly
\* when the active set is non-empty, a torn-down provider has none, and at no
\* time is more than one interval alive
C12_IntervalIffActive ==
  /\ tickInterval.alive <= 1
  /\ tickInterval.alive = (IF tickInterval.running THEN 1 ELSE 0)
  /\ tickInterval.running => tickInterval.naps # <<>>
  /\ mounted => (tickInterval.running <=> activeNaps # <<>>)
  /\ ~mounted => tickInterval.alive = 0

\* a provider torn down while a restored session and a started one were active
C12_Witness ==
  /\ ~mounted /\ ~isLoading
  /\ Len(activeNaps) = 2
  /\ activeNaps[1].notes = "x"
  /\ tickInterval = NoInterval

\* this step is a run of the interval callback
IsTick == budget'.ticks = budget.ticks - 1

\* this step is a run of the interval callback that issues a show
IsTickPush == IsTick /\ lastNotificationUpdate' # lastNotificationUpdate

\* C13: a tick issues a show only when the last recorded push is at least
\* 30 s old and then records the clock, a tick that finds a younger push
\* issues nothing, and a show issued by a tick comes at least 30 s after the
\* previous show issued by a tick
C13_TickPushesThrottled ==
  [][/\ IsTickPush =>
          /\ now - lastNotificationUpdate >= NOTIFICATION_UPDATE_INTERVAL * 1000
          /\ lastNotificationUpdate' = now
          /\ lastTickPush.at # 0 =>
               now - lastTickPush.at >= NOTIFICATION_UPDATE_INTERVAL * 1000
     /\ (IsTick /\ ~IsTickPush) =>
          /\ now - lastNotificationUpdate < NOTIFICATION_UPDATE_INTERVAL * 1000
          /\ notifOps' = notifOps]_vars

\* C13, within one provider lifetime: the same, the previous show issued by
\* a tick being one of the same process
C13_TickPushesThrottledInLifetime ==
  [][/\ IsTickPush =>
          /\ now - lastNotificationUpdate >= NOTIFICATION_UPDATE_INTERVAL * 1000
          /\ lastNotificationUpdate' = now
          /\ (lastTickPush.at # 0 /\ lastTickPush.life = budget.restarts) =>
               now - lastTickPush.at >= NOTIFICATION_UPDATE_INTERVAL * 1000
     /\ (IsTick /\ ~IsTickPush) =>
          /\ now - lastNotificationUpdate < NOTIFICATION_UPDATE_INTERVAL * 1000
          /\ notifOps' = notifOps]_vars

\* the second tick of a process has issued a show, 30.8 s after the show
\* issued by its first tick, which is still in flight
C13_Witness ==
  /\ budget.ticks = ThrottleTicks - 2 /\ budget.restarts = ThrottleRestarts
  /\ lastTickPush.at = now /\ lastNotificationUpdate = now
  /\ \E n \in notifOps : n.by = "tick" /\ n.body = formatTime(0)
  /\ \E n \in notifOps : n.by = "tick" /\ n.body = formatTime(30)

\* C14: every show, issued by the effect of a render or by a tick, carries
\* the name of the first session of the active set as rendered when it is
\* issued
C14_ShowNamesPrimary ==
  [][/\ IsTickPush =>
          /\ activeNaps # <<>>
          /\ \A n \in notifOps' \ notifOps : n.title = activeNaps[1].babyName
     /\ lastCall'.op = "render" =>
          \A n \in notifOps' \ notifOps :
             n.kind = "show" =>
               (activeNaps' # <<>> /\ n.title = activeNaps'[1].babyName)]_vars

\* C15: the store never holds the text of an empty map and no setItem is
\* ever issued with it: the write for an empty active set is a removeItem
C15_NoEmptyMapStored ==
  /\ (store.present /\ store.form = "map") => store.data # Stringify(<<>>)
  /\ \A w \in writes :
       /\ w.kind = "setItem" => w.data # Stringify(<<>>)
       /\ w.kind = "removeItem" \/ Parse(w.data) # <<>>

C15_Witness ==
  /\ ~isLoading
  /\ activeNaps = <<>>
  /\ store.present
  /\ persistNaps(activeNaps) \in writes
  /\ persistNaps(activeNaps).kind = "removeItem"

\* C16: an updateNotes call changes neither the rendered map nor the store
\* nor the writes in flight by itself; for a subject with a session the map
\* it leaves to the next render differs from the one before only in that
\* session's notes, and that render runs the persist effect, which writes
\* the new map; for a subject without a session the map is the one before
\* and the call gives the persist effect no reason to run: a render that
\* changes nothing issues no write
C16_UpdateNotesFrame ==
  [][/\ IsCall("updateNotes") =>
          LET id == lastCall'.id
              left == ApplyQueue(queue', activeNaps', now')
          IN /\ activeNaps' = activeNaps
             /\ writes' = writes
             /\ store' = store
             /\ IF Has(lastCall'.before, id)
                  THEN /\ Len(left.naps) = Len(lastCall'.before)
                       /\ \E t \in NoteTexts :
                            left.naps =
                              [i \in 1..Len(lastCall'.before) |->
                                 IF lastCall'.before[i].babyId = id
                                   THEN [lastCall'.before[i] EXCEPT !.notes = t]
                                   ELSE lastCall'.before[i]]
                       /\ left.changed
                  ELSE /\ left.naps = lastCall'.before
                       /\ left.changed = ApplyQueue(queue, activeNaps, now).changed
     /\ lastCall'.op = "render" =>
          LET r == ApplyQueue(queue, activeNaps, now)
          IN /\ (r.changed /\ ~isLoading') =>
                   (activeNaps' = r.naps /\ persistNaps(r.naps) \in writes')
             /\ (~r.changed /\ isLoading' = isLoading) =>
                   (activeNaps' = activeNaps /\ writes' = writes)]_vars

C16_Witness ==
  /\ lastCall.op = "updateNotes"
  /\ lastCall.id = "a"
  /\ Len(lastCall.before) = 2
  /\ lastCall.before[2].babyId = "a"
  /\ lastCall.before[2].notes = ""
  /\ ~isLoading
  /\ Len(Accepted) = 2
  /\ Accepted[2].notes = "x"
  /\ Accepted[1] = lastCall.before[1]

\* a show or dismiss call rejects in this step
IsNotifFailure == budget'.faults = budget.faults - 1 /\ notifOps' # notifOps

\* C17: a show or dismiss that rejects changes neither the active set, the
\* queued updates, the writes in flight, the store nor the provider's being
\* mounted; the render that issues a notification call issues the write of
\* the rendered map with it, whatever becomes of the call; and stopNap for a
\* rendered session returns its FinalizedNap, also after a rejection
C17_NotificationFailureHarmless ==
  [][/\ IsNotifFailure =>
          /\ mounted' = mounted
          /\ activeNaps' = activeNaps
          /\ isLoading' = isLoading
          /\ queue' = queue
          /\ writes' = writes
          /\ store' = store
     /\ (lastCall'.op = "render" /\ notifOps' # notifOps) =>
          persistNaps(activeNaps') \in writes'
     /\ (IsCall("stopNap") /\ Has(activeNaps, lastCall'.id)) =>
          /\ lastCall'.result.ok
          /\ lastCall'.result.babyId = lastCall'.id
          /\ ~Has(ApplyQueue(queue', activeNaps', now').naps, lastCall'.id)]_vars

\* the show for a started session was rejected, the session is stored all
\* the same, and the stopNap that follows returns its FinalizedNap
C17_Witness ==
  /\ lastCall.op = "stopNap"
  /\ lastCall.result.ok
  /\ budget.faults = MaxFaults - 1
  /\ ~notif.shown
  /\ notifOps = {}
  /\ writes = {}
  /\ store.present
  /\ store.form = "map"
  /\ Parse(store.data) = lastCall.before
  /\ Len(lastCall.before) = 1
  /\ lastCall.before[1].babyId = "b"

\* a setItem or removeItem rejects in this step
IsWriteFailure == budget'.faults = budget.faults - 1 /\ writes' # writes

\* C18: a setItem or removeItem that rejects changes neither the rendered
\* active set nor the queued updates and leaves the provider mounted; no
\* startNap, stopNap, stopFirstActiveNap or updateNotes call takes the
\* provider down; and after a rejection the calls still act on the active
\* set in memory: a started subject is in the set left to the next render, a
\* stopped one is not, and the render that changes the set issues the write
\* of the new map
C18_WriteFailureHarmless ==
  [][/\ IsWriteFailure =>
          /\ mounted' = mounted
          /\ activeNaps' = activeNaps
          /\ isLoading' = isLoading
          /\ queue' = queue
          /\ notifOps' = notifOps
     /\ (budget'.calls = budget.calls - 1) =>
          (mounted' /\ lastCall'.op # "throw")
     /\ (budget.faults < MaxFaults /\ IsCall("startNap")) =>
          Has(ApplyQueue(queue', activeNaps', now').naps, lastCall'.id)
     /\ (budget.faults < MaxFaults /\ (IsCall("stopNap") \/ IsCall("stopFirstActiveNap"))
           /\ lastCall'.result.ok) =>
          ~Has(ApplyQueue(queue', activeNaps', now').naps, lastCall'.id)
     /\ (budget.faults < MaxFaults /\ lastCall'.op = "render"
           /\ ~isLoading' /\ activeNaps' # activeNaps) =>
          persistNaps(activeNaps') \in writes']_vars

\* the write of a started session was rejected, the session is still in
\* memory, its notes were edited afterwards and the new map is being written
C18_Witness ==
  /\ mounted
  /\ ~isLoading
  /\ budget.faults = MaxFaults - 1
  /\ ~store.present
  /\ notif.shown
  /\ lastCall.op = "render"
  /\ Len(lastCall.before) = 1
  /\ lastCall.before[1].notes = ""
  /\ Len(activeNaps) = 1
  /\ activeNaps[1].notes = "x"
  /\ writes = {persistNaps(activeNaps)}

\* the session startNap's update u inserts when new Date() gives clk
StartedSession(u, clk) ==
  [babyId |-> u.id, babyName |-> u.name, babyGender |-> u.gender,
   startTime |-> toISOString(clk), notes |-> ""]

\* queue[i] is a startNap update for a subject without a rendered session,
\* and the only queued update that can touch that subject's session
SoleStart(i) ==
  /\ queue[i].op = "start"
  /\ ~Has(activeNaps, queue[i].id)
  /\ \A j \in 1..Len(queue) :
       /\ queue[j].op \notin {"set", "setNull"}
       /\ j # i => queue[j].id # queue[i].id

\* startNap(baby) for a subject without a session leaves to the next render
\* the map before with one session appended, made from the argument
StartAppendsOne ==
  (IsCall("startNap") /\ ~Has(lastCall'.before, lastCall'.id)) =>
     /\ activeNaps' = activeNaps
     /\ \E baby \in Babies :
          /\ baby.id = lastCall'.id
          /\ ApplyQueue(queue', activeNaps', now').naps =
               Append(lastCall'.before,
                      [babyId |-> baby.id, babyName |-> baby.name,
                       babyGender |-> baby.gender, startTime |-> toISOString(now),
                       notes |-> ""])

IsRead == lastCall'.op \in {"getElapsedSeconds", "isNapping", "hasAnyActiveNap"}

\* C20: a getElapsedSeconds, isNapping or hasAnyActiveNap call changes
\* neither the active set, the queued updates, the store, the writes, the
\* notification nor the calls to it; for a subject without a session
\* getElapsedSeconds returns 0 and isNapping false, for one with a session
\* the floor of the seconds since its startTime and true; hasAnyActiveNap
\* returns true exactly when the active set is not empty
C20_AccessorsPure ==
  [][IsRead =>
       /\ UNCHANGED <<activeNaps, queue, isLoading, store, writes, notif, notifOps,
                      now, tick, tickInterval, lastNotificationUpdate>>
       /\ lastCall'.op = "getElapsedSeconds" =>
            lastCall'.result.elapsedSeconds =
              IF \E i \in 1..Len(activeNaps) : activeNaps[i].babyId = lastCall'.id
                THEN (now - getTime(Get(activeNaps, lastCall'.id).startTime)) \div 1000
                ELSE 0
       /\ lastCall'.op = "isNapping" =>
            (lastCall'.result.ok <=>
               \E i \in 1..Len(activeNaps) : activeNaps[i].babyId = lastCall'.id)
       /\ lastCall'.op = "hasAnyActiveNap" =>
            (lastCall'.result.ok <=> activeNaps # <<>>)]_vars

\* getElapsedSeconds has returned 0 for a subject without a session while
\* the session of the other subject is more than 30 s old
C20_Witness ==
  /\ lastCall.op = "getElapsedSeconds"
  /\ lastCall.id = "b"
  /\ lastCall.result.elapsedSeconds = 0
  /\ ~Has(activeNaps, "b")
  /\ Has(activeNaps, "a")
  /\ getElapsedSeconds("a") >= 30
  /\ ~isLoading

\* C21: a stopFirstActiveNap call made for a notification stop event while
\* a session exists, in the rendered active set or in the store while the
\* restore is still in progress, returns a FinalizedNap and removes that
\* session
C21_StopEventFinalizes ==
  [][(/\ IsCall("stopFirstActiveNap")
      /\ \/ activeNaps # <<>>
         \/ /\ isLoading
            /\ store.present
            /\ store.form = "map"
            /\ Parse(store.data) # <<>>)
       => /\ lastCall'.result.ok
          /\ ~Has(ApplyQueue(queue', activeNaps', now').naps, lastCall'.id)]_vars

\* C22: a run of the interval callback adds one to the tick counter the next
\* render shows and, when it issues a show, records the clock as the last
\* push; it changes neither the active set, the queued updates, the writes
\* in flight nor the store; the render of ticks alone adds their number to
\* the counter and issues no write; and every write issued is the rendered
\* map, whose sessions hold a startTime and no count of seconds
C22_TickFrame ==
  [][/\ IsTick =>
          /\ tickPending' = tickPending + 1
          /\ tick' = tick
          /\ UNCHANGED <<activeNaps, queue, isLoading, writes, store, now>>
          /\ notifOps' # notifOps => lastNotificationUpdate' = now
          /\ notifOps' = notifOps => lastNotificationUpdate' = lastNotificationUpdate
     /\ lastCall'.op = "render" =>
          /\ tick' = tick + tickPending
          /\ (queue = <<>> /\ ~loadPending) =>
                UNCHANGED <<activeNaps, writes, store, notifOps>>
          /\ \A w \in writes' \ writes : w = persistNaps(activeNaps')
     /\ tick' > tick => lastCall'.op = "render"]_vars

\* two runs of the callback have been rendered together; the map and the
\* store are what they were
C22_Witness ==
  /\ lastCall.op = "render"
  /\ tick = 2
  /\ Has(activeNaps, "a")
  /\ lastCall.before = activeNaps
  /\ writes = {}
  /\ store.present
  /\ Parse(store.data) = activeNaps

\* C23: a show or dismiss is issued by an effect only in the commit of a
\* render, after the write of the same rendered map has been issued in that
\* commit; and the render that changes the active set, once the initial
\* read is over, issues both, the write first
C23_WriteBeforeNotification ==
  [][/\ (\E n \in notifOps' \ notifOps : n.by = "effect") =>
          /\ lastCall'.op = "render"
          /\ \E j \in 1..Len(lastCall'.issued) :
                /\ lastCall'.issued[j] \in notifOps' \ notifOps
                /\ lastCall'.issued[j] = updateNotification(activeNaps', now)
                /\ \E i \in 1..(j - 1) :
                      /\ lastCall'.issued[i] = persistNaps(activeNaps')
                      /\ lastCall'.issued[i] \in writes'
     /\ (lastCall'.op = "render" /\ ~isLoading' /\ activeNaps' # activeNaps) =>
          /\ Len(lastCall'.issued) = 2
          /\ lastCall'.issued[1].kind \in {"setItem", "removeItem"}
          /\ lastCall'.issued[1] = persistNaps(activeNaps')
          /\ lastCall'.issued[2].kind \in {"show", "dismiss"}]_vars

\* the render of a stop has issued the removeItem and then the dismiss while
\* the store still holds the session
C23_Witness ==
  /\ lastCall.op = "render"
  /\ ~isLoading
  /\ activeNaps = <<>>
  /\ lastCall.before # <<>>
  /\ store.present
  /\ lastCall.issued = <<persistNaps(<<>>), dismissNapNotification>>
  /\ persistNaps(<<>>) \in writes
  /\ dismissNapNotification \in notifOps

\* C24: the render that ends the initial read issues the show for the first
\* session of the rendered set, with the floor of the seconds since its
\* startTime, or the dismiss when the set is empty; and as long as the read
\* is not over no show or dismiss is issued
C24_NotificationAfterRestore ==
  [][/\ (lastCall'.op = "render" /\ isLoading /\ ~isLoading') =>
          IF activeNaps' # <<>>
            THEN [kind |-> "show", title |-> activeNaps'[1].babyName,
                  body |-> formatTime((now - getTime(activeNaps'[1].startTime)) \div 1000),
                  by |-> "effect"] \in notifOps'
            ELSE dismissNapNotification \in notifOps'
     /\ isLoading' => notifOps' \subseteq notifOps]_vars

\* C25: as long as the initial read is not over no setItem or removeItem is
\* issued and none is in flight, and until getItem has answered the store
\* is left as the previous process left it
C25_NoWriteWhileLoading ==
  [][/\ isLoading' => (writes' \subseteq writes /\ writes' = {})
     /\ (isLoading /\ ~loadPending /\ budget'.restarts = budget.restarts) =>
          store' = store]_vars

\* after a restart, with the read still in progress, a render has put a
\* newly started session in the active set; the store still holds the
\* session of the previous process and no write has been issued
C25_Witness ==
  /\ budget.restarts < MaxRestarts
  /\ isLoading
  /\ lastCall.op = "render"
  /\ Has(activeNaps, "b")
  /\ store.present
  /\ Has(Parse(store.data), "a")
  /\ ~Has(Parse(store.data), "b")
  /\ writes = {}

\* C26: once the initial read is over, no update waits for a render and
\* every write issued has completed, the store holds the text of the
\* rendered active set, and no key when the set is empty
C26_StoreConverges ==
  (mounted /\ ~isLoading /\ NoPending /\ writes = {}) =>
     store = IF Len(Keys(activeNaps)) > 0
               THEN [present |-> TRUE, form |-> "map", data |-> Stringify(activeNaps)]
               ELSE NoStore

\* the screen's toggle or the notification listener runs in this step
IsStopCaller ==
  /\ budget'.calls = budget.calls - 1
  /\ lastCall'.op \in {"toggleNap", "notificationResponse"}

\* C27: a stop from the toggle or from the notification that finalizes a nap
\* removes its session and issues one history insert for that nap, with its
\* subject, start, end, duration and notes, when the duration is above 0
\* and, for the notification, a user is signed in; otherwise none; and no
\* insert has been issued for that nap before
C27_OneInsertPerNap ==
  [][(IsStopCaller /\ lastCall'.result.ok) =>
        LET r == lastCall'.result
            saved == r.elapsedSeconds > 0
                       /\ (lastCall'.op = "notificationResponse" => lastCall'.user # "")
        IN /\ ~Has(ApplyQueue(queue', activeNaps', now').naps, lastCall'.id)
           /\ lastCall'.inserts =
                IF saved
                  THEN <<[baby_id |-> lastCall'.id, started_by |-> lastCall'.user,
                          start_time |-> Get(activeNaps, lastCall'.id).startTime,
                          end_time |-> toISOString(now),
                          duration_seconds |-> r.elapsedSeconds, notes |-> r.notes]>>
                  ELSE <<>>
           /\ saved => ~StopQueued(lastCall'.id)]_vars

\* C28: in every step a subject's session that is in the rendered active
\* set before and after, with no stopNap for it applied in between, keeps
\* its startTime, babyName and babyGender; the text of every write issued
\* parses back to the rendered sessions; and the render of the restore
\* alone installs the sessions as they were parsed
C28_SnapshotImmutable ==
  [][/\ \A id \in BabyIds :
          (Has(activeNaps, id) /\ Has(activeNaps', id) /\ ~StopQueued(id)) =>
             /\ Get(activeNaps', id).startTime = Get(activeNaps, id).startTime
             /\ Get(activeNaps', id).babyName = Get(activeNaps, id).babyName
             /\ Get(activeNaps', id).babyGender = Get(activeNaps, id).babyGender
     /\ \A w \in writes' \ writes :
          w.kind = "setItem" => Parse(w.data) = activeNaps'
     /\ (lastCall'.op = "render" /\ Len(queue) = 1 /\ queue[1].op = "set") =>
          activeNaps' = queue[1].value]_vars

\* C29: after startNap(A) or stopNap(A) the active set left to the next
\* render, with A's session taken out, is the one before the call with A's
\* session taken out: the same other subjects, in the same order, each with
\* its startTime and notes
C29_OthersUntouched ==
  lastCall.op \in {"startNap", "stopNap"} =>
     /\ Delete(Accepted, lastCall.id) = Delete(lastCall.before, lastCall.id)
     /\ \A i \in 1..Len(lastCall.before) :
          lastCall.before[i].babyId # lastCall.id =>
             \E j \in 1..Len(Accepted) : Accepted[j] = lastCall.before[i]

\* stopNap has removed the first of two sessions; the second, started 30 s
\* later, is left as it was
C29_Witness ==
  /\ lastCall.op = "stopNap"
  /\ lastCall.result.ok
  /\ Len(lastCall.before) = 2
  /\ lastCall.before[1].babyId = lastCall.id
  /\ getTime(lastCall.before[2].startTime) > getTime(lastCall.before[1].startTime)
  /\ Accepted = <<lastCall.before[2]>>

\* C30: in the early provider no subject ever has two timers not cleared, a
\* timer runs only for a subject with a nap, rendered or queued, none runs
\* after the unmount, and each second that passes adds exactly 1 to the
\* elapsedSeconds of every active nap
C30_EarlyOneIntervalPerNap ==
  [][/\ \A id \in BabyIds :
          Cardinality({t \in early'.timers : t.babyId = id}) <= 1
     /\ \A t \in early'.timers :
          \/ Has(early'.activeNaps, t.babyId)
          \/ Has(earlyApplyQueue(early'.queue, early'.activeNaps), t.babyId)
     /\ ~early'.mounted => early'.timers = {}
     /\ (budget'.ticks = budget.ticks - 1 /\ early.mounted) =>
          \A id \in BabyIds :
             Has(earlyAccepted, id) =>
                Get(earlyApplyQueue(early'.queue, early'.activeNaps), id).elapsedSeconds
                  = Get(earlyAccepted, id).elapsedSeconds + 1]_vars

====
